---- MODULE Spec2Model ----
(***************************************************************************)
(* The game state store of warrenseine/sphere and the callbacks that act   *)
(* on it.  The repository holds four variants of the same core:            *)
(*   "recoil"     src/src/App.tsx 1-193     (atoms, global ballId)          *)
(*   "orbit"      src/src/App.tsx 195-681   (zustand, orbitOffset player)   *)
(*   "movePlayer" src/unnamed/part_000      (zustand, quaternion player)    *)
(*   "setPlayer"  src/src/App.tsx 683-1205  (zustand, camera-driven player) *)
(* `variant' is fixed at start-up; every action is translated per variant. *)
(*                                                                         *)
(* Lengths are fixed point, 1 unit = 1e-4.  Angles are in units of pi, so  *)
(* that the half-angle sine and cosine of setFromAxisAngle are integers.   *)
(***************************************************************************)
EXTENDS Integers, Sequences, FiniteSets, TLC

VARIABLES variant, player, balls, nextBallId, bricks, nextBrickId,
          outlineSelection, mountedBricks,
          mounted,     \* the refs of the mounted PlayerGroup and BallMesh
          effected,    \* the refs whose mount effect has run and whose cleanup
                       \* has not
          input,       \* the state of PlayerGroup's input hooks: the four key
                       \* flags and the pointer position
          frame,       \* history: the delta of the last frame callback, the
                       \* angles it computed and the orientation before it
          hooks,       \* the state of the pointer hooks (useTouch) and the
                       \* render whose handlers are subscribed on window
          pointer,     \* history: whether a pointer went down and has not
                       \* gone up, where it went down and where it was last
          lastOp,      \* history: the last operation, its argument, and whether
                       \* the argument was present before it
          added,       \* history: the ids of the balls addBall has created since
                       \* it was last called on an empty collection
          removed,     \* history: the brick ids that have left the brick map
          raised,      \* history: whether the last operation raised an error
          notified     \* history: the states the store's listeners were called
                       \* with during the last operation (each set() calls them)

vars == <<variant, player, balls, nextBallId, bricks, nextBrickId,
          outlineSelection, mountedBricks, mounted, effected, input, frame,
          hooks, pointer, lastOp, added, removed, raised, notified>>

(* ------------------------------ bounds --------------------------------- *)
MaxBallId == 4
MaxBrickId == 1
MaxResets == 2
MaxHandle == 3
MaxOrbit == 1
AbsentBrickId == 999

(* --------------------------- program constants ------------------------- *)
samples == 64
randomBricks == 16
maxBalls == 3

Variants == {"recoil", "orbit", "movePlayer", "setPlayer"}
Zustand == Variants \ {"recoil"}
Quaternion == {"movePlayer", "setPlayer"}

ballColors ==
  << "rgb(249, 65, 68)", "rgb(243, 114, 44)", "rgb(248, 150, 30)",
     "rgb(249, 199, 79)", "rgb(144, 190, 109)", "rgb(67, 170, 139)",
     "rgb(87, 117, 144)" >>

getBallColor(ballId) == ballColors[(ballId % Len(ballColors)) + 1]

Min(a, b) == IF a < b THEN a ELSE b

(* ------------------------------ geometry ------------------------------- *)
\* sin(k*pi/2) and cos(k*pi/2) for an angle of k units of pi
SinHalf(k) == << 0, 1, 0, -1 >>[(k % 4) + 1]
CosHalf(k) == << 1, 0, -1, 0 >>[(k % 4) + 1]

IdentityQuaternion == [x |-> 0, y |-> 0, z |-> 0, w |-> 1]

setFromAxisAngle(axis, angle) ==
  [x |-> axis[1] * SinHalf(angle), y |-> axis[2] * SinHalf(angle),
   z |-> axis[3] * SinHalf(angle), w |-> CosHalf(angle)]

\* a composition that adds the components
multiplyComponentwise(a, b) ==
  [x |-> a.x + b.x, y |-> a.y + b.y, z |-> a.z + b.z, w |-> a.w + b.w]

\* three.js Quaternion.multiply (multiplyQuaternions(a, b))
multiply(a, b) ==
  [x |-> a.x * b.w + a.w * b.x + a.y * b.z - a.z * b.y,
   y |-> a.y * b.w + a.w * b.y + a.z * b.x - a.x * b.z,
   z |-> a.z * b.w + a.w * b.z + a.x * b.y - a.y * b.x,
   w |-> a.w * b.w - a.x * b.x - a.y * b.y - a.z * b.z]

\* three.js Vector3.applyQuaternion
applyQuaternion(v, q) ==
  LET ix == q.w * v[1] + q.y * v[3] - q.z * v[2]
      iy == q.w * v[2] + q.z * v[1] - q.x * v[3]
      iz == q.w * v[3] + q.x * v[2] - q.y * v[1]
      iw == (0 - q.x) * v[1] - q.y * v[2] - q.z * v[3]
  IN << ix * q.w + iw * (0 - q.x) + iy * (0 - q.z) - iz * (0 - q.y),
        iy * q.w + iw * (0 - q.y) + iz * (0 - q.x) - ix * (0 - q.z),
        iz * q.w + iw * (0 - q.z) + ix * (0 - q.y) - iy * (0 - q.x) >>

multiplyScalar(v, s) == << v[1] * s, v[2] * s, v[3] * s >>

\* a generator whose points depend on the store
generateFibonacciSphereFromStore ==
  [i \in 1..64 |-> <<0, 0, 15000 + nextBrickId>>]

\* a generator whose heights run over the closed range, y = -1 and y = 1
\* included: distance is 0 there and the points are the two poles
generateFibonacciSphereWithPoles ==
  [i \in 1..64 |->
     IF i = 1 THEN <<0, -15000, 0>>
     ELSE IF i = 64 THEN <<0, 15000, 0>>
     ELSE <<15000, 0, 0>>]

\* generateFibonacciSphere(): the 64 points of radius 1.5, rounded to 1e-4
generateFibonacciSphere ==
  <<
    <<-1948, -14766, 1784>>, <<397, -14297, -4521>>, <<3536, -13828, 4613>>, <<-6717, -13359, -1188>>,
    <<6472, -12891, -4117>>, <<-2183, -12422, 8120>>, <<-4177, -11953, -8042>>, <<9064, -11484, 3310>>,
    <<-9411, -11016, 3885>>, <<4521, -10547, -9661>>, <<3325, -10078, 10601>>, <<-9965, -9609, -5775>>,
    <<11616, -9141, -2554>>, <<-7039, -8672, 10012>>, <<-1614, -8203, -12454>>, <<9827, -7734, 8283>>,
    <<-13112, -7266, 542>>, <<9478, -6797, -9432>>, <<-628, -6328, 13585>>, <<-8847, -5859, -10602>>,
    <<13873, -5391, 1867>>, <<-11631, -4922, 8093>>, <<3144, -4453, -13974>>, <<7190, -3984, 12547>>,
    <<-13892, -3516, -4432>>, <<13333, -3047, -6160>>, <<-5705, -2578, 13631>>, <<-5026, -2109, -13974>>,
    <<13198, -1641, 6937>>, <<-14460, -1172, 3812>>, <<8104, -703, -12603>>, <<2540, -234, 14781>>,
    <<-11858, 234, -9183>>, <<14932, 703, -1237>>, <<-10155, 1172, 10977>>, <<73, 1641, -14910>>,
    <<9978, 2109, 10999>>, <<-14714, 2578, -1364>>, <<11699, 3047, -8879>>, <<-2610, 3516, 14347>>,
    <<-7702, 3984, -12239>>, <<13814, 4453, 3786>>, <<-12606, 4922, 6469>>, <<4866, 5391, -13125>>,
    <<5206, 5859, 12789>>, <<-12290, 6328, -5824>>, <<12778, 6797, -3940>>, <<-6635, 7266, 11322>>,
    <<-2698, 7734, -12566>>, <<10238, 8203, 7273>>, <<-12145, 8672, 1514>>, <<7709, 9141, -9057>>,
    <<420, 9609, 11510>>, <<-7798, 10078, -7913>>, <<10652, 10547, 545>>, <<-7849, 11016, 6485>>,
    <<1333, 11484, -9557>>, <<5139, 11953, 7464>>, <<-8194, 12422, -1885>>, <<6674, 12891, -3781>>,
    <<-2105, 13359, 6488>>, <<-2412, 13828, -5288>>, <<4178, 14297, 1773>>, <<2641, 14766, 0>>
  >>


(* -------------------------- immutable collections ---------------------- *)
\* the value a spread of `undefined' contributes: no fields
EmptyObject == [f \in {} |-> 0]

\* { ...value, ...changes }
Spread(value, changes) ==
  [f \in (DOMAIN value) \cup (DOMAIN changes) |->
     IF f \in DOMAIN changes THEN changes[f] ELSE value[f]]

EmptyMap == [k \in {} |-> EmptyObject]

MapSet(m, k, v) == (k :> v) @@ m

MapDelete(m, k) == [j \in (DOMAIN m) \ {k} |-> m[j]]

\* Map.update(key, updater) with updater = value => ({...value, ...changes}):
\* the updater is applied to the existing value, or to undefined when the key
\* is absent, and its result (always a fresh object) is stored under key.
MapUpdate(m, k, changes) ==
  LET existing == IF k \in DOMAIN m THEN m[k] ELSE EmptyObject
  IN MapSet(m, k, Spread(existing, changes))

\* List.slice(-n)
SliceLast(s, n) ==
  IF Len(s) <= n THEN s ELSE SubSeq(s, Len(s) - n + 1, Len(s))

\* List.shift(): drops the first element, the empty list stays empty
Shift(s) == IF s = << >> THEN s ELSE Tail(s)

\* Set<Object3DRef>, kept as the sequence of its entries (toArray order)
Has(s, h) == \E i \in 1..Len(s) : s[i] = h

\* a registry that appends without looking the entry up
SetAddAlways(s, h) == Append(s, h)

SetAdd(s, h) == IF Has(s, h) THEN s ELSE Append(s, h)

SetRemove(s, h) == SelectSeq(s, LAMBDA e : e # h)

(* ------------------------------ factories ------------------------------ *)
createPlayer(v, colorIndex) ==
  CASE v = "recoil" ->
         [angularVelocity |-> <<0, 0, 0>>, velocity |-> <<0, 0, 0>>,
          position |-> <<0, 0, 0>>]
    [] v = "orbit" -> [orbitOffset |-> <<0, 0, 40000>>]
    [] OTHER -> [orientation |-> IdentityQuaternion,
                 color |-> getBallColor(colorIndex)]

\* part_000 83-98, App.tsx 757-772: quaternion variants
createBallFromPlayer(ballId, p) ==
  [ballId |-> ballId,
   position |-> applyQuaternion(<<0, 0, 30000>>, p.orientation),
   velocity |-> multiplyScalar(applyQuaternion(<<0, 0, -10000>>, p.orientation), 2),
   color |-> p.color]

\* App.tsx 268-286: the orbit variant colours the ball by its id; position
\* and velocity are functions of the orbit angle alone and are kept as it.
createBallFromOrbit(ballId, p) ==
  [ballId |-> ballId,
   position |-> <<0, p.orbitOffset[2], p.orbitOffset[3]>>,
   velocity |-> <<0, p.orbitOffset[2], 0>>,
   color |-> getBallColor(ballId)]

\* App.tsx 53-65: the recoil variant takes the pad's world direction/position
createRecoilBall(ballId, direction, position) ==
  [angularVelocity |-> <<0, 0, 0>>, velocity |-> direction,
   position |-> position, ballId |-> ballId]

\* a factory that gives every brick the first colour of the palette
createBrickFirstColor(brickId, orbitOffset) ==
  [brickId |-> brickId, orbitOffset |-> orbitOffset,
   color |-> getBallColor(0)]

createBrick(brickId, orbitOffset) ==
  [brickId |-> brickId, orbitOffset |-> orbitOffset,
   color |-> getBallColor(brickId)]

\* getRandomBrickPosition: brickWidth + brickGap = 0.6, brickGap / 2 = 0.1
maxBricks == 10
getRandomBrickPosition(positionX, positionY) ==
  << positionX * 6000 + 1000, positionY * 6000 + 1000, 15000 >>

\* the draws of Math.floor(Math.random() * maxBricks): the first and last cell
RandomPositions ==
  { getRandomBrickPosition(0, 0), getRandomBrickPosition(maxBricks - 1, 0) }

(* ------------------------------- inputs -------------------------------- *)
\* the draw of Math.floor(Math.random() * ballColors.length)
ColorIndexes == { Len(ballColors) - 1 }
BrickIdInputs == {0, AbsentBrickId}
Handles == 1..MaxHandle
PositionInputs == RandomPositions
ChangeInputs == { [color |-> "red"] }

(* ------------------------------- the store ----------------------------- *)
Op(name, id, hit) == [op |-> name, id |-> id, hit |-> hit]

\* what a listener reads of the state it is called with
Observed(list, st) ==
  [balls |-> Len(list), bricks |-> Cardinality(DOMAIN st.bricks),
   nextBrickId |-> st.nextBrickId]

\* an action that is one set(): the listeners are called once, with its result
Notify ==
  notified' = { Observed(balls', [bricks |-> bricks', nextBrickId |-> nextBrickId']) }

\* the ref objects useSphere / useBox return, one per mounted component
PlayerRef == 0
BallRef(ballId) == 0 - (2 * ballId + 1)
BrickRef(brickId) == 0 - (2 * brickId + 2)

\* the operation returned normally
Completes == raised' = FALSE

\* the operation raised inside its updater: set() assigns nothing and calls
\* no listener
Raise(name, id) ==
  /\ raised' = TRUE
  /\ lastOp' = Op(name, id, FALSE)
  /\ notified' = {}
  /\ UNCHANGED <<variant, player, balls, nextBallId, bricks, nextBrickId,
                 outlineSelection, mountedBricks, mounted, effected,
                 input, frame, hooks, pointer, added, removed>>

\* the hooks before any event: useState(false), useState<TouchPosition>()
NoInput ==
  [leftPressed |-> FALSE, rightPressed |-> FALSE, upPressed |-> FALSE,
   downPressed |-> FALSE, touchPosition |-> [x |-> -1, y |-> -1]]

\* the pointer hooks before any event: useState<boolean>(false) and
\* useState<TouchPosition>() are what the first render returns, and the
\* handlers its effect subscribes close over these values
NoHooks ==
  [touchDown |-> FALSE, down |-> FALSE, position |-> [x |-> -1, y |-> -1],
   previousPosition |-> [x |-> -1, y |-> -1],
   initialPosition |-> [x |-> -1, y |-> -1],
   subscribed |-> [touchDown |-> FALSE, down |-> FALSE,
                   position |-> [x |-> -1, y |-> -1],
                   initialPosition |-> [x |-> -1, y |-> -1]]]

\* no pointer has gone down yet
NoPointer ==
  [down |-> FALSE, initial |-> [x |-> -1, y |-> -1],
   last |-> [x |-> -1, y |-> -1]]

\* the orientation the player is drawn with: the stored quaternion, or, in the
\* orbit variant, orbitAround's rotation about the vertical axis
PlayerOrientation(v, p) ==
  CASE v \in {"movePlayer", "setPlayer"} -> p.orientation
    [] v = "orbit" -> setFromAxisAngle(<<0, 1, 0>>, p.orbitOffset[2])
    [] OTHER -> IdentityQuaternion

Init ==
  /\ variant \in Variants
  /\ \E colorIndex \in ColorIndexes : player = createPlayer(variant, colorIndex)
  /\ balls = << >>
  /\ nextBallId = 0
  /\ bricks = EmptyMap
  /\ nextBrickId = 0
  /\ outlineSelection = << >>
  /\ mountedBricks = {}
  /\ mounted = {PlayerRef}
  /\ effected = {}
  /\ input = NoInput
  /\ hooks = NoHooks
  /\ pointer = NoPointer
  /\ frame = [delta |-> 0, angles |-> <<0, 0>>,
              before |-> PlayerOrientation(variant, player)]
  /\ lastOp = Op("create", -1, FALSE)
  /\ added = << >>
  /\ removed = {}
  /\ raised = FALSE
  /\ notified = {}

\* the ball addBall creates, per variant (recoil: ballId: getBallId() = ++ballId,
\* with the pad's world direction and position)
newBall(v, p, counter) ==
  CASE v = "recoil" ->
         createRecoilBall(counter + 1, <<0, 0, 10000>>, <<0, 0 - 5000, 40000>>)
    [] v = "orbit" -> createBallFromOrbit(counter, p)
    [] OTHER -> createBallFromPlayer(counter, p)

\* addBall without the truncation
addBallListNoSlice(v, list, ball) == Append(list, ball)

\* balls after addBall: orbit shifts then pushes, the others push then slice(-3)
addBallList(v, list, ball) ==
  IF v = "orbit" THEN Append(Shift(list), ball)
  ELSE SliceLast(Append(list, ball), maxBalls)

\* createBallFromPlayer hands player.orientation to applyQuaternion (orbit:
\* player.orbitOffset to orbitAround), which reads its components: a player
\* without the field makes the updater raise.  recoil reads no player field.
addBallRaises(v, p) ==
  CASE v \in Quaternion -> "orientation" \notin DOMAIN p
    [] v = "orbit" -> "orbitOffset" \notin DOMAIN p
    [] OTHER -> FALSE

AddBall ==
  /\ nextBallId < MaxBallId
  /\ IF addBallRaises(variant, player)
     THEN Raise("addBall", nextBallId)
     ELSE /\ balls' = addBallList(variant, balls,
                                  newBall(variant, player, nextBallId))
          /\ nextBallId' = nextBallId + 1
          /\ lastOp' = Op("addBall", nextBallId, Len(balls) >= maxBalls)
          /\ added' = Append(IF balls = << >> THEN << >> ELSE added,
                             newBall(variant, player, nextBallId).ballId)
          /\ UNCHANGED <<variant, player, bricks, nextBrickId,
                         outlineSelection, mountedBricks, removed>>
          /\ Notify
          /\ Completes
          /\ UNCHANGED <<mounted, effected>>
          /\ UNCHANGED <<input, frame, hooks, pointer>>

\* addBrick as a function of the store: [bricks, nextBrickId]
addBrick(st, position) ==
  [bricks |-> MapSet(st.bricks, st.nextBrickId,
                     createBrick(st.nextBrickId, position)),
   nextBrickId |-> st.nextBrickId + 1]

\* points.slice(lo - 1, hi).forEach(addBrick), folded by halves to keep the
\* evaluation shallow; comparing the counters evaluates the left half before
\* the right half is started on it
RECURSIVE addBrickRange(_, _, _, _)
addBrickRange(st, points, lo, hi) ==
  IF lo > hi THEN st
  ELSE IF lo = hi THEN addBrick(st, points[lo])
  ELSE LET mid == (lo + hi) \div 2
           left == addBrickRange(st, points, lo, mid)
       IN IF left.nextBrickId > st.nextBrickId
          THEN addBrickRange(left, points, mid + 1, hi)
          ELSE left

\* points.forEach(addBrick), from the i-th point on
forEachAddBrick(st, points, i) == addBrickRange(st, points, i, Len(points))

\* an enclosing set() that writes back the state it was called with
addDefaultBricksLost(st) == st

\* addDefaultBricks as a function of the store.  In part_000 the forEach runs
\* inside an outer set() whose updater returns undefined; the outer merge
\* Object.assign({}, state, undefined) keeps the state the nested sets built.
addDefaultBricks(st) == forEachAddBrick(st, generateFibonacciSphere, 1)

\* the states the listeners see during points.forEach(addBrick): each addBrick
\* is a set() of its own
RECURSIVE notifiedRange(_, _, _, _, _)
notifiedRange(list, st, points, lo, hi) ==
  IF lo > hi THEN {}
  ELSE IF lo = hi THEN {Observed(list, addBrick(st, points[lo]))}
  ELSE LET mid == (lo + hi) \div 2
           left == addBrickRange(st, points, lo, mid)
       IN notifiedRange(list, st, points, lo, mid)
            \cup notifiedRange(list, left, points, mid + 1, hi)

forEachAddBrickNotified(list, st, points, i) ==
  notifiedRange(list, st, points, i, Len(points))

\* part_000: the outer set() then calls the listeners once more, with the
\* last of these states
addDefaultBricksNotified(list, st) ==
  forEachAddBrickNotified(list, st, generateFibonacciSphere, 1)

Store == [bricks |-> bricks, nextBrickId |-> nextBrickId]

AddBrick ==
  /\ variant \in Quaternion
  /\ nextBrickId < MaxBrickId
  /\ \E position \in PositionInputs :
       LET st == addBrick(Store, position)
       IN /\ bricks' = st.bricks
          /\ nextBrickId' = st.nextBrickId
  /\ lastOp' = Op("addBrick", nextBrickId, FALSE)
  /\ UNCHANGED <<variant, player, balls, nextBallId, outlineSelection,
                 mountedBricks,
                 added, removed>>
  /\ Notify
  /\ Completes
  /\ UNCHANGED <<mounted, effected>>
  /\ UNCHANGED <<input, frame, hooks, pointer>>

\* orbit: createRandomBrick draws two angles in [0, 2 pi); the others draw a
\* grid cell and call addBrick
AddRandomBrick ==
  /\ variant \in Zustand
  /\ nextBrickId < MaxBrickId
  /\ \E position \in RandomPositions :
       LET st == addBrick(Store, position)
       IN /\ bricks' = st.bricks
          /\ nextBrickId' = st.nextBrickId
  /\ lastOp' = Op("addRandomBrick", nextBrickId, FALSE)
  /\ UNCHANGED <<variant, player, balls, nextBallId, outlineSelection,
                 mountedBricks,
                 added, removed>>
  /\ Notify
  /\ Completes
  /\ UNCHANGED <<mounted, effected>>
  /\ UNCHANGED <<input, frame, hooks, pointer>>

AddDefaultBricks ==
  /\ variant \in Quaternion
  /\ nextBrickId < MaxResets * samples
  /\ LET st == addDefaultBricks(Store)
     IN /\ bricks' = st.bricks
        /\ nextBrickId' = st.nextBrickId
  /\ lastOp' = Op("addDefaultBricks", nextBrickId, FALSE)
  /\ UNCHANGED <<variant, player, balls, nextBallId, outlineSelection,
                 mountedBricks,
                 added, removed>>
  /\ notified' = addDefaultBricksNotified(balls, Store)
  /\ Completes
  /\ UNCHANGED <<mounted, effected>>
  /\ UNCHANGED <<input, frame, hooks, pointer>>

\* a delete under the neighbouring key
removeBrickWrongKey(m, brickId) == MapDelete(m, brickId + 1)

removeBrick(m, brickId) == MapDelete(m, brickId)

RemoveBrick ==
  /\ variant \in Zustand
  /\ \E brickId \in BrickIdInputs :
       /\ bricks' = removeBrick(bricks, brickId)
       /\ lastOp' = Op("removeBrick", brickId, brickId \in DOMAIN bricks)
  /\ removed' = removed \cup ((DOMAIN bricks) \ (DOMAIN bricks'))
  /\ UNCHANGED <<variant, player, balls, nextBallId, nextBrickId,
                 outlineSelection, mountedBricks, added>>
  /\ Notify
  /\ Completes
  /\ UNCHANGED <<mounted, effected>>
  /\ UNCHANGED <<input, frame, hooks, pointer>>

\* an updater that reads a field of the stored value
updateBrickRaisesOnAbsent(m, brickId, changes) == brickId \notin DOMAIN m
\* Map.update calls the updater with undefined for an absent key; the updater
\* only spreads it ({...undefined} is {}), so it reads no property of undefined
updateBrickRaises(m, brickId, changes) == FALSE

updateBrickReplace(m, brickId, changes) == MapSet(m, brickId, changes)
updateBrick(m, brickId, changes) == MapUpdate(m, brickId, changes)

UpdateBrick ==
  /\ variant \in Zustand
  /\ \E brickId \in BrickIdInputs :
       \E changes \in ChangeInputs :
         IF updateBrickRaises(bricks, brickId, changes)
         THEN Raise("updateBrick", brickId)
         ELSE /\ bricks' = updateBrick(bricks, brickId, changes)
              /\ lastOp' = Op("updateBrick", brickId, brickId \in DOMAIN bricks)
              /\ UNCHANGED <<variant, player, balls, nextBallId, nextBrickId,
                             outlineSelection, mountedBricks,
                             added, removed>>
              /\ Notify
              /\ Completes
              /\ UNCHANGED <<mounted, effected>>
              /\ UNCHANGED <<input, frame, hooks, pointer>>

\* BrickMesh.collide: the closure of a mounted BrickMesh, with the brick and
\* the player colour of its render
Collide ==
  /\ variant \in Quaternion
  /\ \E brickId \in mountedBricks \cap BrickIdInputs :
       IF updateBrickRaises(bricks, brickId, [color |-> player.color])
       THEN Raise("collide", brickId)
       ELSE /\ bricks' = updateBrick(bricks, brickId, [color |-> player.color])
            /\ lastOp' = Op("collide", brickId, brickId \in DOMAIN bricks)
            /\ UNCHANGED <<variant, player, balls, nextBallId, nextBrickId,
                           outlineSelection, mountedBricks,
                           added, removed>>
            /\ Notify
            /\ Completes
            /\ UNCHANGED <<mounted, effected>>
            /\ UNCHANGED <<input, frame, hooks, pointer>>

\* a pad handler that launches a ball
CollidePlayerAddsBall ==
  /\ variant \in Zustand
  /\ PlayerRef \in mounted
  /\ nextBallId < MaxBallId
  /\ balls' = addBallList(variant, balls, newBall(variant, player, nextBallId))
  /\ nextBallId' = nextBallId + 1
  /\ lastOp' = Op("collidePlayer", -1, FALSE)
  /\ added' = Append(IF balls = << >> THEN << >> ELSE added,
                     newBall(variant, player, nextBallId).ballId)
  /\ UNCHANGED <<variant, player, bricks, nextBrickId, outlineSelection,
                 mountedBricks, mounted, effected, input, frame, hooks,
                 pointer, removed>>
  /\ Notify
  /\ Completes

\* PlayerGroup.collide, the onCollide of the pad's body: (e) => {} in the
\* quaternion variants, distort.reset() (a spring, not the store) in the orbit
\* variant.  No set() is called, so no listener is.
CollidePlayer ==
  /\ variant \in Zustand
  /\ PlayerRef \in mounted
  /\ lastOp' = Op("collidePlayer", -1, FALSE)
  /\ UNCHANGED <<variant, player, balls, nextBallId, bricks, nextBrickId,
                 outlineSelection, mountedBricks, mounted, effected,
                 input, frame, hooks, pointer, added, removed>>
  /\ notified' = {}
  /\ Completes

\* BrickGroup re-renders from the store: one BrickMesh per entry, whose collide
\* closure holds brick.brickId.  An entry without orbitOffset makes the render
\* throw (lookAt / orbitAround read a field of undefined) and the tree unmounts.
Rendered(m) ==
  IF \E k \in DOMAIN m : "orbitOffset" \notin DOMAIN m[k] THEN {}
  ELSE { m[k].brickId : k \in DOMAIN m }

\* BallGroup renders one BallMesh per ball, beside the PlayerGroup; a render
\* that throws unmounts them all
RenderedBalls(list, m) ==
  IF \E k \in DOMAIN m : "orbitOffset" \notin DOMAIN m[k] THEN {}
  ELSE {PlayerRef} \cup { BallRef(list[i].ballId) : i \in 1..Len(list) }

Render ==
  /\ variant \in Zustand
  /\ \/ mountedBricks # Rendered(bricks)
     \/ mounted # RenderedBalls(balls, bricks)
  /\ mountedBricks' = Rendered(bricks)
  /\ mounted' = RenderedBalls(balls, bricks)
  /\ lastOp' = Op("render", -1, FALSE)
  /\ UNCHANGED <<variant, player, balls, nextBallId, bricks, nextBrickId,
                 outlineSelection, effected,
                 added, removed>>
  /\ notified' = {}
  /\ Completes
  /\ UNCHANGED <<input, frame, hooks, pointer>>

\* the mounted components whose useEffect registers their ref: the bricks
\* everywhere, the balls except in the orbit variant, the player except in the
\* setPlayer variant
Registering ==
  (IF variant \in {"orbit", "movePlayer"} THEN mounted \cap {PlayerRef} ELSE {})
    \cup (IF variant \in Quaternion THEN mounted \ {PlayerRef} ELSE {})
    \cup { BrickRef(brickId) : brickId \in mountedBricks }

\* refs in the order of the tree: the player, the balls, the bricks, by id
InTreeOrder(refs) ==
  SelectSeq(<<PlayerRef>>
              \o [i \in 1..(nextBallId + 1) |-> BallRef(i - 1)]
              \o [i \in 1..nextBrickId |-> BrickRef(i - 1)],
            LAMBDA ref : ref \in refs)

\* refs.forEach(removeOutlineSelection), folded by halves
RECURSIVE removeRange(_, _, _, _)
removeRange(sel, refs, lo, hi) ==
  IF lo > hi THEN sel
  ELSE IF lo = hi THEN SetRemove(sel, refs[lo])
  ELSE LET mid == (lo + hi) \div 2
           left == removeRange(sel, refs, lo, mid)
       IN IF Len(left) <= Len(sel)
          THEN removeRange(left, refs, mid + 1, hi)
          ELSE left

removeAll(sel, refs) == removeRange(sel, refs, 1, Len(refs))

\* refs.forEach(addOutlineSelection), folded by halves
RECURSIVE addRange(_, _, _, _)
addRange(sel, refs, lo, hi) ==
  IF lo > hi THEN sel
  ELSE IF lo = hi THEN SetAdd(sel, refs[lo])
  ELSE LET mid == (lo + hi) \div 2
           left == addRange(sel, refs, lo, mid)
       IN IF Len(left) >= Len(sel)
          THEN addRange(left, refs, mid + 1, hi)
          ELSE left

addAll(sel, refs) == addRange(sel, refs, 1, Len(refs))

\* React runs the passive effects of the commits: first the cleanups of the
\* unmounted components (removeOutlineSelection(ref)), then the effects of
\* the mounted ones (addOutlineSelection(ref))
FlushEffects ==
  /\ variant \in Zustand
  /\ effected # Registering
  /\ LET registering == Registering
     IN outlineSelection' =
          addAll(removeAll(outlineSelection,
                           InTreeOrder(effected \ registering)),
                 InTreeOrder(registering \ effected))
  /\ effected' = Registering
  /\ lastOp' = Op("flushEffects", -1, FALSE)
  /\ UNCHANGED <<variant, player, balls, nextBallId, bricks, nextBrickId,
                 mountedBricks, mounted, added, removed>>
  /\ Notify
  /\ Completes
  /\ UNCHANGED <<input, frame, hooks, pointer>>

(* ------------------------------ the player ----------------------------- *)
Deltas == {0, 1}
innerWidth == 2
innerHeight == 2
NoTouch == [x |-> -1, y |-> -1]
TouchInputs == {NoTouch} \cup [x : {0, innerWidth}, y : {0, innerHeight}]

\* left gives the positive angle
getAngleFromInputFlipped(leftPressed, rightPressed, upPressed, downPressed, touchPosition) ==
  << IF leftPressed THEN 1 ELSE IF rightPressed THEN -1 ELSE 0,
     IF downPressed THEN -1 ELSE IF upPressed THEN 1 ELSE 0 >>

\* a pressed key takes the angle from the pointer
getAngleFromInputKeysFirst(leftPressed, rightPressed, upPressed, downPressed, touchPosition) ==
  IF touchPosition # NoTouch
       /\ ~(leftPressed \/ rightPressed \/ upPressed \/ downPressed)
  THEN << (2 * touchPosition.x - innerWidth) \div innerWidth,
          (innerHeight - 2 * touchPosition.y) \div innerHeight >>
  ELSE << IF leftPressed THEN -1 ELSE IF rightPressed THEN 1 ELSE 0,
          IF downPressed THEN -1 ELSE IF upPressed THEN 1 ELSE 0 >>

\* up wins over down, right over left
getAngleFromInputUpWins(leftPressed, rightPressed, upPressed, downPressed, touchPosition) ==
  IF touchPosition # NoTouch
  THEN << (2 * touchPosition.x - innerWidth) \div innerWidth,
          (innerHeight - 2 * touchPosition.y) \div innerHeight >>
  ELSE << IF rightPressed THEN 1 ELSE IF leftPressed THEN -1 ELSE 0,
          IF upPressed THEN 1 ELSE IF downPressed THEN -1 ELSE 0 >>

\* with no key pressed the player keeps turning right
getAngleFromInputDrifting(leftPressed, rightPressed, upPressed, downPressed, touchPosition) ==
  IF touchPosition # NoTouch
  THEN << (2 * touchPosition.x - innerWidth) \div innerWidth,
          (innerHeight - 2 * touchPosition.y) \div innerHeight >>
  ELSE << IF leftPressed THEN -1 ELSE 1,
          IF downPressed THEN -1 ELSE IF upPressed THEN 1 ELSE 0 >>

getAngleFromInput(leftPressed, rightPressed, upPressed, downPressed, touchPosition) ==
  IF touchPosition # NoTouch
  THEN << (2 * touchPosition.x - innerWidth) \div innerWidth,
          (innerHeight - 2 * touchPosition.y) \div innerHeight >>
  ELSE << IF leftPressed THEN -1 ELSE IF rightPressed THEN 1 ELSE 0,
          IF downPressed THEN -1 ELSE IF upPressed THEN 1 ELSE 0 >>

\* a player rebuilt from the new orientation alone
movePlayerReplace(p, delta, leftPressed, rightPressed, upPressed, downPressed, touchPosition) ==
  LET angles == getAngleFromInput(leftPressed, rightPressed, upPressed,
                                  downPressed, touchPosition)
      verticalRotation == setFromAxisAngle(<<-1, 0, 0>>, angles[2] * delta)
      horizontalRotation == setFromAxisAngle(<<0, 1, 0>>, angles[1] * delta)
  IN [orientation |->
        multiply(multiply(p.orientation, verticalRotation), horizontalRotation)]

\* the horizontal rotation applied before the vertical one
movePlayerHorizontalFirst(p, delta, leftPressed, rightPressed, upPressed, downPressed, touchPosition) ==
  LET angles == getAngleFromInput(leftPressed, rightPressed, upPressed,
                                  downPressed, touchPosition)
      verticalRotation == setFromAxisAngle(<<-1, 0, 0>>, angles[2] * delta)
      horizontalRotation == setFromAxisAngle(<<0, 1, 0>>, angles[1] * delta)
  IN [p EXCEPT !.orientation =
        multiply(multiply(p.orientation, horizontalRotation), verticalRotation)]

\* part_000 204-242
movePlayer(p, delta, leftPressed, rightPressed, upPressed, downPressed, touchPosition) ==
  LET angles == getAngleFromInput(leftPressed, rightPressed, upPressed,
                                  downPressed, touchPosition)
      verticalRotation == setFromAxisAngle(<<-1, 0, 0>>, angles[2] * delta)
      horizontalRotation == setFromAxisAngle(<<0, 1, 0>>, angles[1] * delta)
  IN [p EXCEPT !.orientation =
        multiply(multiply(p.orientation, verticalRotation), horizontalRotation)]

\* App.tsx 364-379
moveOrbit(p, delta, leftPressed, rightPressed) ==
  LET orbitVelocity == <<0, IF leftPressed THEN -1 ELSE IF rightPressed THEN 1 ELSE 0, 0>>
  IN [orbitOffset |-> << p.orbitOffset[1] + orbitVelocity[1] * delta,
                         p.orbitOffset[2] + orbitVelocity[2] * delta,
                         p.orbitOffset[3] + orbitVelocity[3] * delta >>]

Abs(n) == IF n < 0 THEN 0 - n ELSE n

\* state.player.orientation.clone() / state.player.orbitOffset.clone()
movePlayerRaises(v, p) ==
  CASE v = "movePlayer" -> "orientation" \notin DOMAIN p
    [] v = "orbit" -> "orbitOffset" \notin DOMAIN p
    [] OTHER -> FALSE

MovePlayer ==
  /\ IF movePlayerRaises(variant, player)
     THEN Raise("movePlayer", -1)
     ELSE /\ \E delta \in Deltas, leftPressed \in BOOLEAN, rightPressed \in BOOLEAN :
               \/ /\ variant = "movePlayer"
                  /\ \E upPressed \in BOOLEAN, downPressed \in BOOLEAN,
                        touchPosition \in TouchInputs :
                       player' = movePlayer(player, delta, leftPressed, rightPressed,
                                            upPressed, downPressed, touchPosition)
               \/ /\ variant = "orbit"
                  /\ player' = moveOrbit(player, delta, leftPressed, rightPressed)
                  /\ Abs(player'.orbitOffset[2]) <= MaxOrbit
          /\ lastOp' = Op("movePlayer", -1, player' # player)
          /\ UNCHANGED <<variant, balls, nextBallId, bricks, nextBrickId,
                         outlineSelection, mountedBricks,
                         added, removed>>
          /\ Notify
          /\ Completes
          /\ UNCHANGED <<mounted, effected>>
          /\ UNCHANGED <<input, frame, hooks, pointer>>

\* pointer positions: the corners of the window, and one beyond its right
\* edge (a drag that leaves the window, or a window resized under the pointer)
PointerInputs ==
  {NoTouch} \cup [x : {0, innerWidth, innerWidth + 1}, y : {0, innerHeight}]

\* what the key and pointer events can leave in the hooks; the orbit variant
\* has the left and right keys only
HookInputs(v) ==
  IF v = "movePlayer"
  THEN [leftPressed : BOOLEAN, rightPressed : BOOLEAN, upPressed : BOOLEAN,
        downPressed : BOOLEAN, touchPosition : PointerInputs]
  ELSE [leftPressed : BOOLEAN, rightPressed : BOOLEAN, upPressed : {FALSE},
        downPressed : {FALSE}, touchPosition : {NoTouch}]

\* a key or pointer event changes the state of the hooks
InputEvent ==
  /\ variant \in {"movePlayer", "orbit"}
  /\ \E i \in HookInputs(variant) : i # input /\ input' = i
  /\ lastOp' = Op("input", -1, FALSE)
  /\ UNCHANGED <<variant, player, balls, nextBallId, bricks, nextBrickId,
                 outlineSelection, mountedBricks, mounted, effected, frame,
                 hooks, pointer, added, removed>>
  /\ notified' = {}
  /\ Completes

\* the angles of a frame: getAngleFromInput, or the orbit variant's
\* orbitVelocity.y (leftPressed ? -1 : rightPressed ? 1 : 0)
frameAngles(v, i) ==
  IF v = "movePlayer"
  THEN getAngleFromInput(i.leftPressed, i.rightPressed, i.upPressed,
                         i.downPressed, i.touchPosition)
  ELSE << IF i.leftPressed THEN -1 ELSE IF i.rightPressed THEN 1 ELSE 0, 0 >>

\* PlayerGroup's useFrame callback: movePlayer with the hooks' values
Frame ==
  /\ variant \in {"movePlayer", "orbit"}
  /\ \E delta \in Deltas :
       /\ player' =
            IF variant = "movePlayer"
            THEN movePlayer(player, delta, input.leftPressed, input.rightPressed,
                            input.upPressed, input.downPressed,
                            input.touchPosition)
            ELSE moveOrbit(player, delta, input.leftPressed, input.rightPressed)
       /\ variant = "orbit" => Abs(player'.orbitOffset[2]) <= MaxOrbit
       /\ frame' = [delta |-> delta, angles |-> frameAngles(variant, input),
                    before |-> PlayerOrientation(variant, player)]
  /\ lastOp' = Op("frame", -1, player' # player)
  /\ UNCHANGED <<variant, balls, nextBallId, bricks, nextBrickId,
                 outlineSelection, mountedBricks, mounted, effected, input,
                 hooks, pointer, added, removed>>
  /\ Notify
  /\ Completes

\* the camera's world quaternion (setPlayer) / the key state (recoil)
OrientationInputs ==
  { IdentityQuaternion, setFromAxisAngle(<<0, 1, 0>>, 1),
    setFromAxisAngle(<<-1, 0, 0>>, 1) }

SetPlayer ==
  /\ \/ /\ variant = "setPlayer"
        /\ \E orientation \in OrientationInputs :
             player' = Spread(player, [orientation |-> orientation])
     \/ /\ variant = "recoil"
        /\ \E leftPressed \in BOOLEAN, rightPressed \in BOOLEAN :
             player' = Spread(player,
               [angularVelocity |->
                  <<0, IF leftPressed THEN 1 ELSE IF rightPressed THEN -1 ELSE 0, 0>>])
  /\ lastOp' = Op("setPlayer", -1, player' # player)
  /\ UNCHANGED <<variant, balls, nextBallId, bricks, nextBrickId,
                 outlineSelection, mountedBricks,
                 added, removed>>
  /\ Notify
  /\ Completes
  /\ UNCHANGED <<mounted, effected>>
  /\ UNCHANGED <<input, frame, hooks, pointer>>

(* ----------------------------- the registry ---------------------------- *)
AddOutlineSelection ==
  /\ variant \in Zustand
  /\ \E mesh \in Handles :
       /\ outlineSelection' = SetAdd(outlineSelection, mesh)
       /\ lastOp' = Op("addOutlineSelection", mesh, Has(outlineSelection, mesh))
  /\ UNCHANGED <<variant, player, balls, nextBallId, bricks, nextBrickId,
                 mountedBricks,
                 added, removed>>
  /\ Notify
  /\ Completes
  /\ UNCHANGED <<mounted, effected>>
  /\ UNCHANGED <<input, frame, hooks, pointer>>

RemoveOutlineSelection ==
  /\ variant \in Zustand
  /\ \E mesh \in Handles :
       /\ outlineSelection' = SetRemove(outlineSelection, mesh)
       /\ lastOp' = Op("removeOutlineSelection", mesh, Has(outlineSelection, mesh))
  /\ UNCHANGED <<variant, player, balls, nextBallId, bricks, nextBrickId,
                 mountedBricks,
                 added, removed>>
  /\ Notify
  /\ Completes
  /\ UNCHANGED <<mounted, effected>>
  /\ UNCHANGED <<input, frame, hooks, pointer>>

(* -------------------------------- reset -------------------------------- *)
\* [...Array(16)].forEach(addRandomBrick): the draws alternate between two
\* positions, which may be equal or different
RECURSIVE forEachAddRandomBrick(_, _, _, _)
forEachAddRandomBrick(st, first, second, n) ==
  IF n = 0 THEN st
  ELSE LET next == addBrick(st, IF n % 2 = 0 THEN first ELSE second)
       IN IF next.nextBrickId > st.nextBrickId
          THEN forEachAddRandomBrick(next, first, second, n - 1)
          ELSE next

\* a reset that also restarts the brick counter
resetGameRestartsIds(v, list, st, first, second) ==
  [balls |-> << >>,
   store |-> IF v = "orbit"
             THEN forEachAddRandomBrick([bricks |-> EmptyMap, nextBrickId |-> 0],
                                        first, second, randomBricks)
             ELSE addDefaultBricks([bricks |-> EmptyMap, nextBrickId |-> 0])]

\* resetGame as a function of the store [balls, bricks, nextBrickId]:
\*   orbit       16 x addRandomBrick                       (App.tsx 386-391)
\*   movePlayer  addDefaultBricks                          (part_000 249-254)
\*   setPlayer   clear balls and bricks, addDefaultBricks  (App.tsx 882-891)
resetGame(v, list, st, first, second) ==
  CASE v = "orbit" ->
         [balls |-> list,
          store |-> forEachAddRandomBrick(st, first, second, randomBricks)]
    [] v = "movePlayer" ->
         [balls |-> list, store |-> addDefaultBricks(st)]
    [] OTHER ->
         [balls |-> << >>,
          store |-> addDefaultBricks([st EXCEPT !.bricks = EmptyMap])]

RECURSIVE forEachAddRandomBrickNotified(_, _, _, _, _)
forEachAddRandomBrickNotified(list, st, first, second, n) ==
  IF n = 0 THEN {}
  ELSE LET next == addBrick(st, IF n % 2 = 0 THEN first ELSE second)
       IN {Observed(list, next)}
            \cup forEachAddRandomBrickNotified(list, next, first, second, n - 1)

\* the states the listeners see during resetGame; the setPlayer variant's
\* clearing set() comes first
resetGameNotified(v, list, st, first, second) ==
  CASE v = "orbit" ->
         forEachAddRandomBrickNotified(list, st, first, second, randomBricks)
    [] v = "movePlayer" -> addDefaultBricksNotified(list, st)
    [] OTHER ->
         {Observed(<< >>, [st EXCEPT !.bricks = EmptyMap])}
           \cup addDefaultBricksNotified(<< >>, [st EXCEPT !.bricks = EmptyMap])

ResetSize(v) == IF v = "orbit" THEN randomBricks ELSE samples

ResetGame ==
  /\ variant \in Zustand
  /\ nextBrickId < MaxResets * ResetSize(variant)
  /\ \E first \in RandomPositions :
       LET r == resetGame(variant, balls, Store, first,
                          getRandomBrickPosition(0, 0))
       IN /\ balls' = r.balls
          /\ bricks' = r.store.bricks
          /\ nextBrickId' = r.store.nextBrickId
          /\ notified' = resetGameNotified(variant, balls, Store, first,
                                           getRandomBrickPosition(0, 0))
  /\ lastOp' = Op("resetGame", nextBrickId, balls # << >>)
  /\ removed' = removed \cup ((DOMAIN bricks) \ (DOMAIN bricks'))
  /\ UNCHANGED <<variant, player, nextBallId, outlineSelection, mountedBricks,
                 added>>
  /\ Completes
  /\ UNCHANGED <<mounted, effected>>
  /\ UNCHANGED <<input, frame, hooks, pointer>>

(* ------------------------------ input hooks ---------------------------- *)
\* keycode-js
KEY_SPACE == 32
KEY_LEFT == 37
KEY_UP == 38
KEY_RIGHT == 39
KEY_DOWN == 40
KEY_G == 71

\* the keys of the events delivered to window
KeyCodes == {KEY_SPACE, KEY_LEFT, KEY_UP, KEY_RIGHT, KEY_DOWN, KEY_G}

\* a keyDown handler without the test of the key
keyDownAnyKey(keyPressed, keyCode, targetKeyCode) == TRUE

\* useKeyDown's keyDown: keyPressed after a keydown event with keyCode
keyDown(keyPressed, keyCode, targetKeyCode) ==
  IF keyCode = targetKeyCode THEN TRUE ELSE keyPressed

\* useKeyDown's keyUp: keyPressed after a keyup event with keyCode
keyUp(keyPressed, keyCode, targetKeyCode) ==
  IF keyCode = targetKeyCode THEN FALSE ELSE keyPressed

\* a keydown event reaches the keyDown handler of each of PlayerGroup's
\* useKeyDown hooks; the orbit variant has the left and right hooks only
KeyDown ==
  /\ variant \in {"movePlayer", "orbit"}
  /\ PlayerRef \in mounted
  /\ \E keyCode \in KeyCodes :
       /\ input' =
            [input EXCEPT
               !.leftPressed = keyDown(@, keyCode, KEY_LEFT),
               !.rightPressed = keyDown(@, keyCode, KEY_RIGHT),
               !.upPressed = IF variant = "movePlayer"
                             THEN keyDown(@, keyCode, KEY_UP) ELSE @,
               !.downPressed = IF variant = "movePlayer"
                               THEN keyDown(@, keyCode, KEY_DOWN) ELSE @]
       /\ lastOp' = Op("keydown", keyCode, input' # input)
  /\ UNCHANGED <<variant, player, balls, nextBallId, bricks, nextBrickId,
                 outlineSelection, mountedBricks, mounted, effected, frame,
                 hooks, pointer, added, removed>>
  /\ notified' = {}
  /\ Completes

\* a keyup event reaches the keyUp handler of each useKeyDown hook
KeyUp ==
  /\ variant \in {"movePlayer", "orbit"}
  /\ PlayerRef \in mounted
  /\ \E keyCode \in KeyCodes :
       /\ input' =
            [input EXCEPT
               !.leftPressed = keyUp(@, keyCode, KEY_LEFT),
               !.rightPressed = keyUp(@, keyCode, KEY_RIGHT),
               !.upPressed = IF variant = "movePlayer"
                             THEN keyUp(@, keyCode, KEY_UP) ELSE @,
               !.downPressed = IF variant = "movePlayer"
                               THEN keyUp(@, keyCode, KEY_DOWN) ELSE @]
       /\ lastOp' = Op("keyup", keyCode, input' # input)
  /\ UNCHANGED <<variant, player, balls, nextBallId, bricks, nextBrickId,
                 outlineSelection, mountedBricks, mounted, effected, frame,
                 hooks, pointer, added, removed>>
  /\ notified' = {}
  /\ Completes

\* a keyPress handler without the test of the key
keyPressAnyKey(keyCode, targetKeyCode) == TRUE

\* useKeyPress's keyPress: whether a keypress event with keyCode calls callback
keyPress(keyCode, targetKeyCode) == keyCode = targetKeyCode

\* a keypress event reaches the handler of useKeyPress(KEY_SPACE, addBall)
\* (recoil: the callback that appends a ball); the callback runs inside the
\* handler, so an addBall that raises leaves the store as it was
KeyPress ==
  /\ PlayerRef \in mounted
  /\ nextBallId < MaxBallId
  /\ \E keyCode \in KeyCodes :
       IF keyPress(keyCode, KEY_SPACE)
       THEN IF addBallRaises(variant, player)
            THEN Raise("keypress", keyCode)
            ELSE /\ balls' = addBallList(variant, balls,
                                         newBall(variant, player, nextBallId))
                 /\ nextBallId' = nextBallId + 1
                 /\ lastOp' = Op("keypress", keyCode, TRUE)
                 /\ added' = Append(IF balls = << >> THEN << >> ELSE added,
                                    newBall(variant, player, nextBallId).ballId)
                 /\ UNCHANGED <<variant, player, bricks, nextBrickId,
                                outlineSelection, mountedBricks, mounted,
                                effected, input, frame, hooks, pointer,
                                removed>>
                 /\ Notify
                 /\ Completes
       ELSE /\ lastOp' = Op("keypress", keyCode, FALSE)
            /\ UNCHANGED <<variant, player, balls, nextBallId, bricks,
                           nextBrickId, outlineSelection, mountedBricks,
                           mounted, effected, input, frame, hooks, pointer,
                           added, removed>>
            /\ notified' = {}
            /\ Completes

\* useTouch's handleMouseMove and handleTouchMove (useInput.ts): touchPosition
\* after a move event, touchDown being the value the handler closed over
handleMouseMove(touchDown, touchPosition, event) ==
  IF touchDown THEN event ELSE touchPosition

\* handleMouseDown / handleTouchStart: a mousedown or touchstart event
MouseDown ==
  /\ variant = "movePlayer"
  /\ PlayerRef \in mounted
  /\ \E event \in PointerInputs \ {NoTouch} :
       /\ input' = [input EXCEPT !.touchPosition = event]
       /\ pointer' = [down |-> TRUE, initial |-> event, last |-> event]
  /\ hooks' = [hooks EXCEPT !.touchDown = TRUE]
  /\ lastOp' = Op("mousedown", -1, pointer.down)
  /\ UNCHANGED <<variant, player, balls, nextBallId, bricks, nextBrickId,
                 outlineSelection, mountedBricks, mounted, effected, frame,
                 added, removed>>
  /\ notified' = {}
  /\ Completes

\* a mousemove or touchmove event reaches the handleMouseMove that is
\* subscribed: the one of the last render whose effect has run
MouseMove ==
  /\ variant = "movePlayer"
  /\ PlayerRef \in mounted
  /\ \E event \in PointerInputs \ {NoTouch} :
       /\ input' = [input EXCEPT !.touchPosition =
                      handleMouseMove(hooks.subscribed.touchDown, @, event)]
       /\ pointer' = IF pointer.down THEN [pointer EXCEPT !.last = event]
                     ELSE pointer
  /\ lastOp' = Op("mousemove", -1, pointer.down)
  /\ UNCHANGED <<variant, player, balls, nextBallId, bricks, nextBrickId,
                 outlineSelection, mountedBricks, mounted, effected, frame,
                 hooks, added, removed>>
  /\ notified' = {}
  /\ Completes

\* handleTouchEnd: a mouseup or touchend event
TouchEnd ==
  /\ variant = "movePlayer"
  /\ PlayerRef \in mounted
  /\ input' = [input EXCEPT !.touchPosition = NoTouch]
  /\ hooks' = [hooks EXCEPT !.touchDown = FALSE]
  /\ pointer' = NoPointer
  /\ lastOp' = Op("mouseup", -1, pointer.down)
  /\ UNCHANGED <<variant, player, balls, nextBallId, bricks, nextBrickId,
                 outlineSelection, mountedBricks, mounted, effected, frame,
                 added, removed>>
  /\ notified' = {}
  /\ Completes

\* useTouch's effect (useInput.ts): handleMouseMove changes with touchDown, so
\* the effect of the render that follows the change removes the listeners and
\* subscribes the new handlers.  React runs it after the commit, not in it.
TouchEffect ==
  /\ variant = "movePlayer"
  /\ PlayerRef \in mounted
  /\ hooks.subscribed.touchDown # hooks.touchDown
  /\ hooks' = [hooks EXCEPT !.subscribed.touchDown = hooks.touchDown]
  /\ lastOp' = Op("touchEffect", -1, FALSE)
  /\ UNCHANGED <<variant, player, balls, nextBallId, bricks, nextBrickId,
                 outlineSelection, mountedBricks, mounted, effected, input,
                 frame, pointer, added, removed>>
  /\ notified' = {}
  /\ Completes

\* the coordinates of the pointer events of the tap-detecting hook
TapInputs == [x : {0, 9, 10}, y : {0, 10}]

\* handlePointerUp's condition (part_001), options.onUp being addBall:
\* position and initialPosition are the values the handler closed over
isTap(position, initialPosition) ==
  /\ position # NoTouch
  /\ initialPosition # NoTouch
  /\ Abs(position.x - initialPosition.x) < 10
  /\ Abs(position.y - initialPosition.y) < 10

\* what the handlers of a render close over
Closure(h) ==
  [touchDown |-> h.touchDown, down |-> h.down, position |-> h.position,
   initialPosition |-> h.initialPosition]

\* handlePointerDown: a pointerdown event
PointerDown ==
  /\ variant = "setPlayer"
  /\ PlayerRef \in mounted
  /\ \E event \in TapInputs :
       /\ hooks' = [hooks EXCEPT !.initialPosition = event,
                                 !.previousPosition = event,
                                 !.position = event,
                                 !.down = TRUE]
       /\ pointer' = [down |-> TRUE, initial |-> event, last |-> event]
  /\ lastOp' = Op("pointerdown", -1, pointer.down)
  /\ UNCHANGED <<variant, player, balls, nextBallId, bricks, nextBrickId,
                 outlineSelection, mountedBricks, mounted, effected, input,
                 frame, added, removed>>
  /\ notified' = {}
  /\ Completes

\* a pointermove event reaches the subscribed handlePointerMove
PointerMove ==
  /\ variant = "setPlayer"
  /\ PlayerRef \in mounted
  /\ \E event \in TapInputs :
       /\ hooks' = IF hooks.subscribed.down
                   THEN [hooks EXCEPT
                           !.previousPosition = hooks.subscribed.position,
                           !.position = event]
                   ELSE hooks
       /\ pointer' = IF pointer.down THEN [pointer EXCEPT !.last = event]
                     ELSE pointer
  /\ lastOp' = Op("pointermove", -1, pointer.down)
  /\ UNCHANGED <<variant, player, balls, nextBallId, bricks, nextBrickId,
                 outlineSelection, mountedBricks, mounted, effected, input,
                 frame, added, removed>>
  /\ notified' = {}
  /\ Completes

\* a pointerup event reaches the subscribed handlePointerUp: onUp (addBall) if
\* its condition holds, then the four setters.  An addBall that raises leaves
\* the handler before the setters.
PointerUp ==
  /\ variant = "setPlayer"
  /\ PlayerRef \in mounted
  /\ UNCHANGED <<variant, player, bricks, nextBrickId, outlineSelection,
                 mountedBricks, mounted, effected, input, frame, removed>>
  /\ LET tap == isTap(hooks.subscribed.position,
                      hooks.subscribed.initialPosition)
     IN /\ tap => nextBallId < MaxBallId
        /\ lastOp' = Op("pointerup", -1, tap)
        /\ pointer' = NoPointer
        /\ IF tap /\ addBallRaises(variant, player)
           THEN /\ raised' = TRUE
                /\ notified' = {}
                /\ UNCHANGED <<balls, nextBallId, added, hooks>>
           ELSE /\ hooks' = [hooks EXCEPT !.position = NoTouch,
                                          !.previousPosition = NoTouch,
                                          !.initialPosition = NoTouch,
                                          !.down = FALSE]
                /\ IF tap
                   THEN /\ balls' = addBallList(variant, balls,
                                      newBall(variant, player, nextBallId))
                        /\ nextBallId' = nextBallId + 1
                        /\ added' =
                             Append(IF balls = << >> THEN << >> ELSE added,
                                    newBall(variant, player, nextBallId).ballId)
                        /\ Notify
                   ELSE /\ UNCHANGED <<balls, nextBallId, added>>
                        /\ notified' = {}
                /\ Completes

\* useTouch's effect (part_001): handlePointerMove and handlePointerUp change
\* with down, position and initialPosition, so the effect of the render that
\* follows a change subscribes the new handlers, after the commit
PointerEffect ==
  /\ variant = "setPlayer"
  /\ PlayerRef \in mounted
  /\ hooks.subscribed # Closure(hooks)
  /\ hooks' = [hooks EXCEPT !.subscribed = Closure(hooks)]
  /\ lastOp' = Op("pointerEffect", -1, FALSE)
  /\ UNCHANGED <<variant, player, balls, nextBallId, bricks, nextBrickId,
                 outlineSelection, mountedBricks, mounted, effected, input,
                 frame, pointer, added, removed>>
  /\ notified' = {}
  /\ Completes

Next ==
  \/ AddBall
  \/ AddBrick
  \/ AddRandomBrick
  \/ AddDefaultBricks
  \/ RemoveBrick
  \/ UpdateBrick
  \/ MovePlayer
  \/ SetPlayer
  \/ AddOutlineSelection
  \/ RemoveOutlineSelection
  \/ ResetGame
  \/ Collide
  \/ Render
  \/ FlushEffects
  \/ InputEvent
  \/ Frame
  \/ CollidePlayer
  \/ KeyDown
  \/ KeyUp
  \/ KeyPress
  \/ MouseDown
  \/ MouseMove
  \/ TouchEnd
  \/ TouchEffect
  \/ PointerDown
  \/ PointerMove
  \/ PointerUp
  \/ PointerEffect

Spec == Init /\ [][Next]_vars

\* the actions that write or read the balls
NextBalls == AddBall \/ MovePlayer \/ SetPlayer \/ ResetGame

SpecBalls == Init /\ [][NextBalls]_vars

\* the actions that write or read the bricks
NextBricks ==
  \/ AddBrick
  \/ AddRandomBrick
  \/ AddDefaultBricks
  \/ RemoveBrick
  \/ UpdateBrick
  \/ ResetGame
  \/ Collide
  \/ Render

SpecBricks == Init /\ [][NextBricks]_vars

\* the actions that write the selection registry
NextRegistry == AddOutlineSelection \/ RemoveOutlineSelection

SpecRegistry == Init /\ [][NextRegistry]_vars

\* the actions that create and destroy balls and bricks
NextEntities ==
  \/ AddBall
  \/ AddBrick
  \/ AddRandomBrick
  \/ AddDefaultBricks
  \/ RemoveBrick
  \/ ResetGame

SpecEntities == Init /\ [][NextEntities]_vars

\* ref.current: React sets it to the object in the commit that mounts the
\* component and back to null in the commit that unmounts it
RefCurrent(ref) ==
  IF ref \in mounted \cup { BrickRef(brickId) : brickId \in mountedBricks }
  THEN "object" ELSE "null"

\* Effects: outlineSelection.toArray().filter((v) => v.current !== undefined)
outlineSelectionArray ==
  SelectSeq(outlineSelection, LAMBDA v : RefCurrent(v) # "undefined")

\* the store actions that mount and unmount meshes, the render and its effects
NextMount ==
  \/ AddBall
  \/ RemoveBrick
  \/ ResetGame
  \/ Render
  \/ FlushEffects

SpecMount == Init /\ [][NextMount]_vars

\* the collision callbacks of the physics bodies and the actions that create
\* and destroy the bricks they belong to
NextCollide ==
  \/ AddBrick
  \/ AddRandomBrick
  \/ RemoveBrick
  \/ UpdateBrick
  \/ Render
  \/ Collide
  \/ CollidePlayer

SpecCollide == Init /\ [][NextCollide]_vars

\* the input hooks and the frame callback that reads them
NextInput == InputEvent \/ Frame

SpecInput == Init /\ [][NextInput]_vars

\* the key events and the hooks they reach
NextKeys == KeyDown \/ KeyUp \/ KeyPress

SpecKeys == Init /\ [][NextKeys]_vars

\* the pointer events of the hook that feeds movePlayer, and its effect
NextTouch == MouseDown \/ MouseMove \/ TouchEnd \/ TouchEffect

SpecTouch == Init /\ [][NextTouch]_vars

\* the pointer events of the tap-detecting hook, and its effect
NextTap == PointerDown \/ PointerMove \/ PointerUp \/ PointerEffect

SpecTap == Init /\ [][NextTap]_vars

(* ------------------------------ properties ----------------------------- *)
Range(s) == { s[i] : i \in 1..Len(s) }

Count(s, h) == Cardinality({ i \in 1..Len(s) : s[i] = h })

\* a.brickId === b.brickId: an entry without the field reads undefined
SameBrickId(a, b) ==
  IF "brickId" \in DOMAIN a /\ "brickId" \in DOMAIN b
  THEN a.brickId = b.brickId
  ELSE "brickId" \notin DOMAIN a /\ "brickId" \notin DOMAIN b

\* C1: in every reachable state the ball collection holds at most 3 balls.
C1_BallBound == Len(balls) <= 3

\* a 4th ball has been added to a full collection, which still holds 3
C1_Witness == lastOp.op = "addBall" /\ lastOp.hit /\ Len(balls) = 3

\* C2: after k consecutive addBall calls on a store with no balls, the
\* collection is exactly the min(k, 3) most recently added balls, oldest first.
C2_LastThreeAdded ==
  lastOp.op = "addBall" =>
    /\ Len(balls) = Min(Len(added), 3)
    /\ [i \in 1..Len(balls) |-> balls[i].ballId] = SliceLast(added, 3)

\* C3: updateBrick with an id that is not a key of the brick map leaves the
\* map unchanged and creates no entry under that id.
C3_UpdateAbsentIsNoOp ==
  [][(lastOp'.op = "updateBrick" /\ lastOp'.id \notin DOMAIN bricks)
       => (bricks' = bricks /\ lastOp'.id \notin DOMAIN bricks')]_vars

\* C4: removeBrick(id) removes exactly the entry under id and leaves every
\* other brick unchanged; with id absent the map is unchanged; a second
\* removeBrick(id) changes nothing more.
C4_RemoveBrick ==
  [][lastOp'.op = "removeBrick" =>
       /\ DOMAIN bricks' = (DOMAIN bricks) \ {lastOp'.id}
       /\ \A k \in DOMAIN bricks' : bricks'[k] = bricks[k]
       /\ (lastOp'.id \notin DOMAIN bricks => bricks' = bricks)
       /\ removeBrick(bricks', lastOp'.id) = bricks']_vars

\* a present brick has been removed and other bricks remain
C4_Witness ==
  /\ lastOp.op = "removeBrick"
  /\ lastOp.hit
  /\ lastOp.id \notin DOMAIN bricks
  /\ DOMAIN bricks # {}

\* C5: from any reachable state resetGame yields no balls and exactly the
\* default number N of bricks, under the ids 0..N-1.
C5_ResetYieldsDefault ==
  lastOp.op = "resetGame" =>
    /\ balls = << >>
    /\ DOMAIN bricks = 0..(ResetSize(variant) - 1)

\* C6: resetGame clears before it rebuilds: no ball and no brick of the store
\* before the call is in the store after it.
C6_ResetClears ==
  [][lastOp'.op = "resetGame" =>
       /\ Range(balls) \cap Range(balls') = {}
       /\ (DOMAIN bricks) \cap (DOMAIN bricks') = {}
       /\ Cardinality(DOMAIN bricks') = ResetSize(variant)]_vars

\* C7: addBall adds exactly 1 to nextBallId, addBrick and addRandomBrick add
\* exactly 1 to nextBrickId, and no action decreases either counter.
C7_CountersGrow ==
  [][/\ (lastOp'.op = "addBall" => nextBallId' = nextBallId + 1)
     /\ (lastOp'.op \in {"addBrick", "addRandomBrick"}
           => nextBrickId' = nextBrickId + 1)
     /\ nextBallId' >= nextBallId
     /\ nextBrickId' >= nextBrickId]_vars

\* a second resetGame has run with balls added before it
C7_Witness ==
  /\ lastOp.op = "resetGame"
  /\ nextBallId > 0
  /\ nextBrickId > ResetSize(variant)

\* C8: no two live balls have the same ballId and no two live bricks have
\* the same brickId.
C8_UniqueIds ==
  /\ \A i, j \in 1..Len(balls) : i # j => balls[i].ballId # balls[j].ballId
  /\ \A k1, k2 \in DOMAIN bricks :
       k1 # k2 => ~SameBrickId(bricks[k1], bricks[k2])

\* C9: once a brick id has left the brick map, no later action or collision
\* callback puts an entry back under that id.
C9_NoIdReuse == removed \cap (DOMAIN bricks) = {}

\* C10: the registry holds at most one entry per handle; adding a handle
\* leaves exactly one entry for it, also when it was present; removing it
\* leaves none and keeps the other entries; removing an absent handle changes
\* nothing.
C10_RegistryIsSet ==
  [][/\ \A h \in Handles : Count(outlineSelection', h) <= 1
     /\ (lastOp'.op = "addOutlineSelection"
           => /\ Count(outlineSelection', lastOp'.id) = 1
              /\ Range(outlineSelection') = Range(outlineSelection) \cup {lastOp'.id})
     /\ (lastOp'.op = "removeOutlineSelection"
           => /\ Count(outlineSelection', lastOp'.id) = 0
              /\ Range(outlineSelection') = Range(outlineSelection) \ {lastOp'.id}
              /\ (~Has(outlineSelection, lastOp'.id)
                    => outlineSelection' = outlineSelection))]_vars

\* a handle has been added while it was already registered
C10_Witness ==
  /\ lastOp.op = "addOutlineSelection"
  /\ lastOp.hit
  /\ Count(outlineSelection, lastOp.id) = 1
  /\ Len(outlineSelection) > 1


\* C11: a collision reported for a brick that is in the store sets that brick's
\* color to the player's color and leaves its other fields (brickId,
\* orbitOffset) and every other brick unchanged.
C11_CollideSetsColor ==
  [][(lastOp'.op = "collide" /\ lastOp'.id \in DOMAIN bricks) =>
       /\ DOMAIN bricks' = DOMAIN bricks
       /\ bricks'[lastOp'.id].color = player.color
       /\ DOMAIN bricks'[lastOp'.id] = DOMAIN bricks[lastOp'.id] \cup {"color"}
       /\ \A f \in DOMAIN bricks[lastOp'.id] \ {"color"} :
            bricks'[lastOp'.id][f] = bricks[lastOp'.id][f]
       /\ \A k \in DOMAIN bricks \ {lastOp'.id} : bricks'[k] = bricks[k]]_vars

\* a collision has recoloured a complete brick among several
C11_Witness ==
  /\ lastOp.op = "collide" /\ lastOp.hit
  /\ lastOp.id \in DOMAIN bricks
  /\ {"brickId", "orbitOffset", "color"} \subseteq DOMAIN bricks[lastOp.id]
  /\ bricks[lastOp.id].brickId = lastOp.id
  /\ bricks[lastOp.id].color = player.color
  /\ bricks[lastOp.id].color # getBallColor(lastOp.id)
  /\ Cardinality(DOMAIN bricks) > 1

\* C12: every store action is atomic for observers: a listener of the store is
\* only ever called with the state in which the action is fully applied.
C12_ActionsAtomic == \A o \in notified : o = Observed(balls, Store)

C14_RegistryTracksMounted ==
  effected = Registering =>
    /\ \A ref \in mounted \ {PlayerRef} : Has(outlineSelection, ref)
    /\ \A brickId \in mountedBricks : Has(outlineSelection, BrickRef(brickId))
    /\ Range(outlineSelection)
         \subseteq mounted \cup { BrickRef(brickId) : brickId \in mountedBricks }

\* C15: the list the effects stage computes for the outline effect holds no
\* entry whose backing object has been released: the filter drops them.
C15_ReleasedFilteredOut ==
  \A v \in Range(outlineSelectionArray) : RefCurrent(v) = "object"

LeftOnly == [NoInput EXCEPT !.leftPressed = TRUE]
RightOnly == [NoInput EXCEPT !.rightPressed = TRUE]

\* C16: from the identity orientation, a frame of delta 1 with only left
\* pressed and no pointer yields the single rotation of angle -1 about the
\* vertical axis (0, 1, 0); with only right pressed, of angle +1.
C16_LeftIsNegative ==
  [][(/\ lastOp'.op = "frame"
      /\ frame'.delta = 1
      /\ PlayerOrientation(variant, player) = IdentityQuaternion) =>
       /\ input = LeftOnly =>
            PlayerOrientation(variant, player') = setFromAxisAngle(<<0, 1, 0>>, -1)
       /\ input = RightOnly =>
            PlayerOrientation(variant, player') = setFromAxisAngle(<<0, 1, 0>>, 1)]_vars

\* the quaternion variant has turned left by one frame from the identity
C16_Witness ==
  /\ variant = "movePlayer"
  /\ lastOp.op = "frame" /\ lastOp.hit
  /\ frame.delta = 1 /\ frame.before = IdentityQuaternion
  /\ input = LeftOnly
  /\ player.orientation = setFromAxisAngle(<<0, 1, 0>>, -1)

\* C17: when a pointer position is present the angles depend on it and on the
\* window size alone: they are the same for all 16 combinations of the keys.
C17_PointerOverridesKeys ==
  [][(lastOp'.op = "frame" /\ input.touchPosition # NoTouch) =>
       frame'.angles =
         << (2 * input.touchPosition.x - innerWidth) \div innerWidth,
            (innerHeight - 2 * input.touchPosition.y) \div innerHeight >>]_vars

\* a frame has taken its angles from the pointer while the opposite keys were held
C17_Witness ==
  /\ lastOp.op = "frame"
  /\ input.touchPosition = [x |-> innerWidth, y |-> 0]
  /\ input.leftPressed /\ input.downPressed
  /\ frame.angles = <<1, 1>>

\* C18: whatever the keys and the pointer position, both angles computed for
\* a frame lie in [-1, 1].
C18_AnglesInRange ==
  lastOp.op = "frame" =>
    /\ frame.angles[1] \in -1..1
    /\ frame.angles[2] \in -1..1

\* C19: with no pointer, the horizontal angle is -1 if left is pressed, else +1
\* if right is, else 0, and the vertical angle is -1 if down is pressed, else
\* +1 if up is, else 0: left wins over right and down over up.
C19_KeyAngles ==
  [][(lastOp'.op = "frame" /\ input.touchPosition = NoTouch) =>
       frame'.angles =
         << IF input.leftPressed THEN -1 ELSE IF input.rightPressed THEN 1 ELSE 0,
            IF input.downPressed THEN -1 ELSE IF input.upPressed THEN 1 ELSE 0 >>]_vars

\* a frame has run with all four keys held and no pointer
C19_Witness ==
  /\ lastOp.op = "frame"
  /\ input.touchPosition = NoTouch
  /\ input.leftPressed /\ input.rightPressed
  /\ input.upPressed /\ input.downPressed
  /\ frame.angles = <<-1, -1>>

\* r.color; reading a field the object does not have yields undefined
ColorOf(r) == IF "color" \in DOMAIN r THEN r.color ELSE "undefined"

\* C20: the ball addBall creates has the colour the player has at the call,
\* and its ballId is the value nextBallId had just before the call.
C20_BallFromPlayer ==
  [][lastOp'.op = "addBall" =>
       /\ balls' # << >>
       /\ balls'[Len(balls')].ballId = nextBallId
       /\ ColorOf(balls'[Len(balls')]) = ColorOf(player)]_vars

\* C21: every brick created by addBrick, addRandomBrick or addDefaultBricks
\* (also through resetGame) gets the colour palette[brickId mod 7] of the
\* 7-entry palette, whatever the random draws were: the colours of new bricks
\* cycle through the palette in creation order.
C21_BrickColorCycles ==
  [][lastOp'.op \in {"addBrick", "addRandomBrick", "addDefaultBricks", "resetGame"} =>
       /\ Len(ballColors) = 7
       /\ \A k \in nextBrickId..(nextBrickId' - 1) :
            /\ k \in DOMAIN bricks'
            /\ bricks'[k].color = ballColors[(k % 7) + 1]]_vars

\* addDefaultBricks has created 64 bricks whose colours wrapped around the palette
C21_Witness ==
  /\ lastOp.op = "addDefaultBricks"
  /\ {6, 7, 8} \subseteq DOMAIN bricks
  /\ bricks[6].color = ballColors[7]
  /\ bricks[7].color = ballColors[1]
  /\ bricks[8].color = ballColors[2]

\* C22: addDefaultBricks called with nextBrickId = k puts one brick per
\* generated point, in generation order, under the keys k..k+63, keeps every
\* other entry and leaves nextBrickId = k+64: no nested addBrick update is lost
\* when the enclosing update returns.
C22_DefaultBricksAdded ==
  [][lastOp'.op = "addDefaultBricks" =>
       /\ Len(generateFibonacciSphere) = 64
       /\ nextBrickId' = nextBrickId + 64
       /\ DOMAIN bricks' = (DOMAIN bricks) \cup (nextBrickId..(nextBrickId + 63))
       /\ \A i \in 0..63 :
            /\ bricks'[nextBrickId + i].brickId = nextBrickId + i
            /\ bricks'[nextBrickId + i].orbitOffset = generateFibonacciSphere[i + 1]
       /\ \A j \in (DOMAIN bricks) \ (nextBrickId..(nextBrickId + 63)) :
            bricks'[j] = bricks[j]]_vars

\* addDefaultBricks has run a second time, on a store that held bricks
C22_Witness ==
  /\ lastOp.op = "addDefaultBricks"
  /\ lastOp.id = 64
  /\ nextBrickId = 128
  /\ Cardinality(DOMAIN bricks) = 128
  /\ bricks[64].orbitOffset = generateFibonacciSphere[1]
  /\ bricks[127].orbitOffset = generateFibonacciSphere[64]

\* the squared norm of a point
NormSquared(v) == v[1] * v[1] + v[2] * v[2] + v[3] * v[3]

LengthSq(q) == q.x * q.x + q.y * q.y + q.z * q.z + q.w * q.w

Placed(m) == { k \in DOMAIN m : "orbitOffset" \in DOMAIN m[k] }

\* C25: no two bricks created by addRandomBrick have the same orbitOffset.  In
\* the orbit variant every brick with a position comes from addRandomBrick
\* (directly or through resetGame); in the others the brick of an addRandomBrick
\* call is compared with the brick of the addRandomBrick call just before it.
C25_RandomBricksApart ==
  [][/\ variant = "orbit" =>
          \A k1, k2 \in Placed(bricks') :
            k1 # k2 => bricks'[k1].orbitOffset # bricks'[k2].orbitOffset
     /\ (/\ lastOp.op = "addRandomBrick"
         /\ lastOp'.op = "addRandomBrick"
         /\ lastOp.id \in Placed(bricks')) =>
          bricks'[lastOp.id].orbitOffset # bricks'[lastOp'.id].orbitOffset]_vars

\* C26: there is exactly one player, its color is an entry of the 7-entry
\* palette, and no action changes it.
C26_PlayerColorKept ==
  [][/\ Len(ballColors) = 7
     /\ ColorOf(player) \in Range(ballColors)
     /\ ColorOf(player') = ColorOf(player)]_vars

\* C27: a collision callback maps to zero or one store action: a collision on
\* a brick makes exactly the one update updateBrick(brickId, {color}) of that
\* brick's id, with one notification of the listeners, and a collision on the
\* player pad changes nothing in the store and notifies no listener.
C27_CollisionToAction ==
  [][/\ lastOp'.op = "collide" =>
          /\ bricks' = MapUpdate(bricks, lastOp'.id, [color |-> ColorOf(player)])
          /\ Cardinality(notified') = 1
          /\ UNCHANGED <<player, balls, nextBallId, nextBrickId, outlineSelection>>
     /\ lastOp'.op = "collidePlayer" =>
          /\ notified' = {}
          /\ UNCHANGED <<player, balls, nextBallId, bricks, nextBrickId,
                         outlineSelection>>]_vars

\* the pad has been hit after a brick was recoloured by its own collision
C27_Witness ==
  /\ lastOp.op = "collidePlayer"
  /\ 0 \in DOMAIN bricks
  /\ ColorOf(bricks[0]) = ColorOf(player)
  /\ ColorOf(bricks[0]) # getBallColor(0)

\* C28: every frame composes in the one order old orientation x vertical
\* rotation (about (-1,0,0) by verticalAngle * delta) x horizontal rotation
\* (about (0,1,0) by horizontalAngle * delta), for every input.
C28_CompositionOrder ==
  [][lastOp'.op = "frame" =>
       PlayerOrientation(variant, player') =
         multiply(multiply(PlayerOrientation(variant, player),
                           setFromAxisAngle(<<-1, 0, 0>>,
                                            frame'.angles[2] * frame'.delta)),
                  setFromAxisAngle(<<0, 1, 0>>,
                                   frame'.angles[1] * frame'.delta))]_vars

\* a frame has turned the player both ways, where the other order would have
\* given another orientation
C28_Witness ==
  /\ variant = "movePlayer"
  /\ lastOp.op = "frame" /\ lastOp.hit
  /\ frame.delta = 1
  /\ frame.angles[1] # 0 /\ frame.angles[2] # 0
  /\ player.orientation #
       multiply(multiply(frame.before,
                         setFromAxisAngle(<<0, 1, 0>>, frame.angles[1])),
                setFromAxisAngle(<<-1, 0, 0>>, frame.angles[2]))

\* the fields of the player that movePlayer does not write are kept
OtherPlayerFieldsKept ==
  /\ DOMAIN player' = DOMAIN player
  /\ \A f \in (DOMAIN player) \ {"orientation", "orbitOffset"} :
       player'[f] = player[f]

C30_EntriesComplete ==
  \A k \in DOMAIN bricks :
    /\ {"brickId", "orbitOffset", "color"} \subseteq DOMAIN bricks[k]
    /\ bricks[k].brickId = k

\* C31: in every reachable state every live ball has ballId < nextBallId and
\* every key of the brick map is < nextBrickId, so that the next addBall or
\* addBrick cannot overwrite a live entity.
C31_IdsBelowCounters ==
  /\ \A i \in 1..Len(balls) : balls[i].ballId < nextBallId
  /\ \A k \in DOMAIN bricks : k < nextBrickId

\* C32: a frame with no key pressed and no pointer leaves the player's
\* orientation (or orbit offset) unchanged for every delta, and a frame with
\* delta = 0 leaves it unchanged for every input.
C32_NoInputNoMove ==
  [][(lastOp'.op = "frame" /\ (input = NoInput \/ frame'.delta = 0)) =>
       /\ player' = player
       /\ PlayerOrientation(variant, player') = frame'.before]_vars

\* a turned player has gone through a frame of delta 1 with nothing pressed
C32_Witness ==
  /\ variant = "movePlayer"
  /\ lastOp.op = "frame" /\ ~lastOp.hit
  /\ frame.delta = 1
  /\ input = NoInput
  /\ player.orientation # IdentityQuaternion

\* C33: each useKeyDown flag is false before any event, a keydown of its
\* target key makes it true (and a repeated one keeps it true), a keyup of
\* its target key makes it false, and an event for any other key leaves it
\* as it was: the flag is true exactly when the last keydown or keyup of the
\* target was a keydown.
C33_KeyDownTracksTarget ==
  [][LET Tracks(flag, targetKeyCode) ==
           input'[flag] =
             IF lastOp'.id # targetKeyCode THEN input[flag]
             ELSE lastOp'.op = "keydown"
     IN /\ lastOp.op = "create" =>
             ~(input.leftPressed \/ input.rightPressed \/
               input.upPressed \/ input.downPressed)
        /\ lastOp'.op \in {"keydown", "keyup"} =>
             /\ Tracks("leftPressed", KEY_LEFT)
             /\ Tracks("rightPressed", KEY_RIGHT)
             /\ variant = "movePlayer" => /\ Tracks("upPressed", KEY_UP)
                                          /\ Tracks("downPressed", KEY_DOWN)]_vars

\* a repeated keydown of the left key has left its flag true and the right
\* flag false
C33_Witness ==
  /\ lastOp = Op("keydown", KEY_LEFT, FALSE)
  /\ input.leftPressed
  /\ ~input.rightPressed

\* C34: a keypress event of the fire key performs exactly one addBall (the
\* counter advances by one and the newest ball is the one created from the
\* player and the counter, the others being balls that were there), and a
\* keypress event of any other key changes nothing in the store.
C34_KeyPressOnce ==
  [][(lastOp'.op = "keypress" /\ ~raised') =>
       IF lastOp'.id = KEY_SPACE
       THEN /\ nextBallId' = nextBallId + 1
            /\ balls' # << >>
            /\ balls'[Len(balls')] = newBall(variant, player, nextBallId)
            /\ \A i \in 1..(Len(balls') - 1) :
                 \E j \in 1..Len(balls) : balls[j] = balls'[i]
            /\ UNCHANGED <<player, bricks, nextBrickId, outlineSelection>>
       ELSE UNCHANGED <<player, balls, nextBallId, bricks, nextBrickId,
                        outlineSelection>>]_vars

\* the second keypress of the fire key has created the second ball
C34_Witness ==
  /\ lastOp = Op("keypress", KEY_SPACE, TRUE)
  /\ nextBallId = 2
  /\ balls # << >>
  /\ balls[Len(balls)] = newBall(variant, player, 1)

\* C35: the position the pointer hook of the movePlayer variant reports is
\* defined only while a pointer is down: a state with a defined position and
\* no pointer down (none went down yet, or the last one went up) is never
\* reached.
C35_PositionOnlyWhileDown ==
  (variant = "movePlayer" /\ input.touchPosition # NoTouch) => pointer.down

\* C36: on a pointerup of the tap-detecting hook, onUp (addBall) is called
\* exactly when a pointer went down since the last pointerup and its last
\* position is less than 10 away from where it went down in both x and y; it
\* is called once then and not at all otherwise, and after the pointerup down
\* is false and position is undefined.
C36_TapCallsOnUp ==
  [][lastOp'.op = "pointerup" =>
       /\ lastOp'.hit <=>
            /\ pointer.down
            /\ Abs(pointer.last.x - pointer.initial.x) < 10
            /\ Abs(pointer.last.y - pointer.initial.y) < 10
       /\ nextBallId' = nextBallId + (IF lastOp'.hit THEN 1 ELSE 0)
       /\ ~hooks'.down
       /\ hooks'.position = NoTouch]_vars

\* C37: for every index i in [0, 64) the height y = (2i + 1 - 64) / 64 lies
\* strictly between -1 and 1, so 1 - y^2 is positive, and none of the bricks
\* addDefaultBricks stores lies on the vertical axis: its x and z are not both
\* 0 and its height is short of the radius 1.5.
C37_NoDefaultBrickOnAxis ==
  [][lastOp'.op = "addDefaultBricks" =>
       /\ \A i \in 0..(samples - 1) :
            LET yn == 2 * i + 1 - samples
            IN /\ 0 - samples < yn
               /\ yn < samples
               /\ samples * samples - yn * yn > 0
       /\ nextBrickId' = nextBrickId + samples
       /\ \A k \in nextBrickId..(nextBrickId' - 1) :
            /\ k \in DOMAIN bricks'
            /\ LET point == bricks'[k].orbitOffset
               IN /\ point[1] * point[1] + point[3] * point[3] > 0
                  /\ Abs(point[2]) < 15000]_vars

\* the default bricks of the lowest and the highest index, the nearest to the
\* axis, are stored
C37_Witness ==
  /\ lastOp.op = "addDefaultBricks"
  /\ {0, samples - 1} \subseteq DOMAIN bricks
  /\ bricks[0].orbitOffset[2] = 0 - 14766
  /\ bricks[samples - 1].orbitOffset = <<2641, 14766, 0>>

====
